---- MODULE Spec2Model ----
(***************************************************************************)
(* Model of labml_app/analyses/experiments/parameters.py: the parameters   *)
(* analysis of one experiment run (ParametersAnalysis) and its HTTP read   *)
(* handler.                                                                *)
(*                                                                         *)
(* Strings are sequences of symbols; a symbol is either the separator "."  *)
(* or an atomic dot-free chunk of text ("param", "a", "l2", ...).          *)
(* Python dicts are insertion-ordered: a dict is a sequence of <<key,      *)
(* value>> pairs with distinct keys.                                       *)
(***************************************************************************)
EXTENDS Integers, Sequences, FiniteSets, TLC

VARIABLES
    INDICATOR_LIMIT,  \* labml_app.settings.INDICATOR_LIMIT, fixed at start-up
    db,               \* the persisted entities and the two run indices
    ans,              \* the ParametersAnalysis object the sequential caller holds
    op,               \* the operation that ran last
    arg,              \* its input (a track batch or a run uuid)
    pre,              \* the collection the operation started from
    forwarded,        \* the batches handed to SeriesCollection.track by it
    ret,              \* its return value
    detail,           \* get_tracking: res as sorted, before its names are compressed
    saves,            \* the number of collection saves it performed
    response,         \* the last JSONResponse of get_params_tracking
    handlers          \* the concurrent request handlers: position and locals

vars == <<INDICATOR_LIMIT, db, ans, op, arg, pre, forwarded, ret, detail, saves,
          response, handlers>>

\* what the sequential caller and the observer hold
callerVars == <<ans, op, arg, pre, forwarded, ret, detail, saves, response>>

\* Python's None, for the observer's variables
None == "None"

\* Index.get of a run that has no entry; keys count from 1
NoKey == 0

-----------------------------------------------------------------------------
(* Python str and dict primitives used by the source.                      *)

Dot == "."

\* SeriesEnums.PARAM
PARAM == <<"param">>

\* the literal 'l2' (sort_key, and the stat kind get_tracking keeps)
L2 == <<"l2">>

\* str.split('.'): the maximal dot-free pieces, at least one, possibly empty
RECURSIVE Split(_)
Split(s) ==
    IF \A i \in 1..Len(s) : s[i] # Dot
    THEN <<s>>
    ELSE LET i == CHOOSE i \in 1..Len(s) :
                      s[i] = Dot /\ \A j \in 1..(i - 1) : s[j] # Dot
         IN  <<SubSeq(s, 1, i - 1)>> \o Split(SubSeq(s, i + 1, Len(s)))

\* '.'.join(segments)
RECURSIVE Join(_)
Join(segs) ==
    IF Len(segs) = 0 THEN <<>>
    ELSE IF Len(segs) = 1 THEN segs[1]
    ELSE segs[1] \o <<Dot>> \o Join(Tail(segs))

\* seq[a:b] with Python's clamping, for 0 <= a and b counted from the start
Slice(seq, a, b) == SubSeq(seq, a + 1, IF b < a THEN a ELSE b)

DictHas(d, k) == \E i \in 1..Len(d) : d[i][1] = k

DictGet(d, k) == d[CHOOSE i \in 1..Len(d) : d[i][1] = k][2]

\* d[k] = v: an existing key keeps its position, a new key goes last
DictSet(d, k, v) ==
    IF DictHas(d, k)
    THEN [i \in 1..Len(d) |-> IF d[i][1] = k THEN <<k, v>> ELSE d[i]]
    ELSE Append(d, <<k, v>>)

-----------------------------------------------------------------------------
(* ParametersAnalysis.track                                                *)

\* ind_type = ind_split[0]
IndType(ind) == Split(ind)[1]

\* ind_name = '.'.join(ind_split[:-1])
IndName(ind) == LET ind_split == Split(ind)
                IN  Join(Slice(ind_split, 0, Len(ind_split) - 1))

\* mutant: the type test is dropped
IsParam_AnyType(ind) == Len(Split(ind)) >= 1

\* if ind_type == SeriesEnums.PARAM
IsParam(ind) == IndType(ind) = PARAM

\* mutant: the cap test is dropped
LimitReached_Never(indicators) == Cardinality(indicators) < 0

\* mutant: the cap test is off by one
LimitReached_OffByOne(indicators) == Cardinality(indicators) > INDICATOR_LIMIT

\* if len(self.parameters.indicators) >= INDICATOR_LIMIT
LimitReached(indicators) == Cardinality(indicators) >= INDICATOR_LIMIT

\* mutant: the cap is tested before the membership of the identity
TrackKey_CapFirst(st, item) ==
    LET ind == item[1]
        s   == item[2]
    IN  IF IsParam(ind)
        THEN IF LimitReached(st.indicators)
             THEN st
             ELSE [indicators |-> st.indicators \cup {IndName(ind)},
                   res |-> DictSet(st.res, ind, s)]
        ELSE st

\* mutant: at the cap a new identity takes the place of a tracked one
TrackKey_Evict(st, item) ==
    LET ind == item[1]
        s   == item[2]
    IN  IF IsParam(ind)
        THEN IF IndName(ind) \notin st.indicators /\ LimitReached(st.indicators)
             THEN [indicators |->
                       (st.indicators \ {CHOOSE x \in st.indicators : TRUE})
                           \cup {IndName(ind)},
                   res |-> DictSet(st.res, ind, s)]
             ELSE [indicators |-> st.indicators \cup {IndName(ind)},
                   res |-> DictSet(st.res, ind, s)]
        ELSE st

\* mutant: res[ind] = s is reached by a key the cap rejected
TrackKey_ForwardRejected(st, item) ==
    LET ind == item[1]
        s   == item[2]
    IN  IF IsParam(ind)
        THEN IF IndName(ind) \notin st.indicators /\ ~LimitReached(st.indicators)
             THEN [indicators |-> st.indicators \cup {IndName(ind)},
                   res |-> DictSet(st.res, ind, s)]
             ELSE [st EXCEPT !.res = DictSet(st.res, ind, s)]
        ELSE st

\* one iteration of the loop over data.items(), on st = [indicators, res]
TrackKey(st, item) ==
    LET ind == item[1]
        s   == item[2]
    IN  IF IsParam(ind)
        THEN IF IndName(ind) \notin st.indicators
             THEN IF LimitReached(st.indicators)
                  THEN st
                  ELSE [indicators |-> st.indicators \cup {IndName(ind)},
                        res |-> DictSet(st.res, ind, s)]
             ELSE [st EXCEPT !.res = DictSet(st.res, ind, s)]
        ELSE st

\* mutant: every key is decided against the tracked set the call started from
TrackLoop_Snapshot(st, data) ==
    LET RECURSIVE Go(_, _)
        Go(acc, rest) ==
            IF rest = <<>> THEN acc
            ELSE LET t == TrackKey([indicators |-> st.indicators, res |-> acc.res],
                                   Head(rest))
                 IN  Go([indicators |-> acc.indicators \cup t.indicators,
                         res |-> t.res], Tail(rest))
    IN  Go(st, data)

\* the loop: res = {} ; for ind, s in data.items(): ...
RECURSIVE TrackLoop(_, _)
TrackLoop(st, data) ==
    IF data = <<>> THEN st
    ELSE TrackLoop(TrackKey(st, Head(data)), Tail(data))

-----------------------------------------------------------------------------
(* The collaborators: Series, SeriesCollection, helper, labml_db.          *)

\* a stored (serialized) series: its summary mean, and whether its smoothed
\* representation is cached
SeriesData(mean, smoothed) == [mean |-> mean, smoothed |-> smoothed]

\* Series.update of the stored series with one sample, then to_data(): the
\* mean follows the sample and the cached smoothing is stale
SeriesUpdate(tracking, ind, s) == DictSet(tracking, ind, SeriesData(s, FALSE))

\* SeriesCollection.track(data), before its save
RECURSIVE SeriesCollectionTrack(_, _)
SeriesCollectionTrack(tracking, data) ==
    IF data = <<>> THEN tracking
    ELSE SeriesCollectionTrack(
             SeriesUpdate(tracking, Head(data)[1], Head(data)[2]), Tail(data))

\* Series().load(track).is_smoothed_updated after .detail was read
IsSmoothedUpdated(track) == ~track.smoothed

\* Series.to_data() after .detail was read
ToData(track) == SeriesData(track.mean, TRUE)

\* the number of leading segments all the names share
RECURSIVE CommonPrefixLen(_, _)
CommonPrefixLen(names, n) ==
    IF /\ \A i \in 1..Len(names) : Len(names[i]) > n
       /\ \A i \in 1..Len(names) : names[i][n + 1] = names[1][n + 1]
    THEN CommonPrefixLen(names, n + 1)
    ELSE n

\* helper.remove_common_prefix(res, 'name')
RemoveCommonPrefix(res) ==
    LET names == [i \in 1..Len(res) |-> Split(res[i].name)]
        n     == CommonPrefixLen(names, 0)
    IN  IF Len(res) < 2 \/ n = 0 THEN res
        ELSE [i \in 1..Len(res) |->
                 [res[i] EXCEPT !.name = Join(SubSeq(names[i], n + 1, Len(names[i])))]]

\* ParametersModel(): the defaults of SeriesCollection
NewParametersModel == [indicators |-> {}, tracking |-> <<>>]

\* ParametersPreferencesModel(): the defaults of Preferences
NewPreferencesModel == [series_preferences |-> <<>>]

-----------------------------------------------------------------------------
(* ParametersAnalysis.get_track_summaries                                  *)

\* ind = name_split[-1]
StatKind(key) == LET name_split == Split(key) IN name_split[Len(name_split)]

\* name = '.'.join(name_split[1:-1])
ParamName(key) == LET name_split == Split(key)
                  IN  Join(Slice(name_split, 1, Len(name_split) - 1))

\* the first loop: data[name][ind] = series['mean']
RECURSIVE SummaryGroups(_, _)
SummaryGroups(data, tracking) ==
    IF tracking = <<>> THEN data
    ELSE LET key   == Head(tracking)[1]
             mean  == Head(tracking)[2].mean
             name  == ParamName(key)
             group == IF DictHas(data, name) THEN DictGet(data, name) ELSE <<>>
         IN  SummaryGroups(DictSet(data, name, DictSet(group, StatKind(key), mean)),
                           Tail(tracking))

\* mutant: a group without 'l2' is kept and ranked as 0
RetainedGroups_DefaultZero(data) ==
    [i \in 1..Len(data) |->
        IF DictHas(data[i][2], L2) THEN data[i][2]
        ELSE Append(data[i][2], <<L2, 0>>)]

\* res = [v for k, v in data.items() if sort_key in v]
RECURSIVE RetainedGroups(_)
RetainedGroups(data) ==
    IF data = <<>> THEN <<>>
    ELSE (IF DictHas(Head(data)[2], L2) THEN <<Head(data)[2]>> ELSE <<>>)
         \o RetainedGroups(Tail(data))

\* the place of x in an ascending, stably sorted sequence
RECURSIVE InsertAscending(_, _)
InsertAscending(sorted, d) ==
    IF sorted = <<>> THEN <<d>>
    ELSE LET last == sorted[Len(sorted)]
         IN  IF DictGet(last, L2) <= DictGet(d, L2)
             THEN Append(sorted, d)
             ELSE Append(InsertAscending(SubSeq(sorted, 1, Len(sorted) - 1), d), last)

\* mutant: the groups are left in the order of the store
SortedRes_Unsorted(res) == res

\* sorted_res = sorted(res, key=lambda k: k[sort_key])
RECURSIVE SortedRes(_)
SortedRes(res) ==
    IF res = <<>> THEN <<>>
    ELSE InsertAscending(SortedRes(SubSeq(res, 1, Len(res) - 1)), res[Len(res)])

\* mutant: the record of a stat kind starts with the value of its first group
PivotEntry_KeepFirst(retd, k, v) ==
    IF ~DictHas(retd, k)
    THEN DictSet(retd, k, [name |-> k, value |-> <<v>>])
    ELSE LET r == DictGet(retd, k)
         IN  DictSet(retd, k, [r EXCEPT !.value = Append(r.value, v)])

\* one step of the inner loop: for k, v in d.items()
PivotEntry(retd, k, v) ==
    IF ~DictHas(retd, k)
    THEN DictSet(retd, k, [name |-> k, value |-> <<>>])
    ELSE LET r == DictGet(retd, k)
         IN  DictSet(retd, k, [r EXCEPT !.value = Append(r.value, v)])

RECURSIVE PivotGroup(_, _)
PivotGroup(retd, d) ==
    IF d = <<>> THEN retd
    ELSE PivotGroup(PivotEntry(retd, Head(d)[1], Head(d)[2]), Tail(d))

\* the outer loop: for d in sorted_res
RECURSIVE Pivot(_, _)
Pivot(retd, sorted_res) ==
    IF sorted_res = <<>> THEN retd
    ELSE Pivot(PivotGroup(retd, Head(sorted_res)), Tail(sorted_res))

DictValues(d) == [i \in 1..Len(d) |-> d[i][2]]

get_track_summaries(tracking) ==
    LET data == SummaryGroups(<<>>, tracking)
    IN  IF data = <<>> THEN <<>>
        ELSE DictValues(Pivot(<<>>, SortedRes(RetainedGroups(data))))

-----------------------------------------------------------------------------
(* ParametersAnalysis.get_tracking                                         *)

\* mutant: the stat kind of the key is not tested
TrackingEntry_AnyStat(st, item) ==
    LET ind   == item[1]
        track == item[2]
        name  == Split(ind)
        series == [mean |-> track.mean,
                   name |-> Join(Slice(name, 1, Len(name) - 1))]
    IN  IF IsSmoothedUpdated(track)
        THEN [st EXCEPT !.tracking = DictSet(st.tracking, ind, ToData(track)),
                         !.res = Append(st.res, series),
                         !.is_series_updated = TRUE]
        ELSE [st EXCEPT !.res = Append(st.res, series)]

\* mutant: the refreshed series is stored under the name of the record
TrackingEntry_StoreUnderName(st, item) ==
    LET ind   == item[1]
        track == item[2]
        name  == Split(ind)
    IN  IF name[Len(name)] # L2 THEN st
        ELSE LET series == [mean |-> track.mean,
                            name |-> Join(Slice(name, 1, Len(name) - 1))]
             IN  IF IsSmoothedUpdated(track)
                 THEN [st EXCEPT !.tracking = DictSet(st.tracking, series.name,
                                                      ToData(track)),
                                  !.res = Append(st.res, series),
                                  !.is_series_updated = TRUE]
                 ELSE [st EXCEPT !.res = Append(st.res, series)]

\* mutant: the collection is saved as soon as a series is refreshed
TrackingEntry_SaveEach(st, item) ==
    LET ind   == item[1]
        track == item[2]
        name  == Split(ind)
    IN  IF name[Len(name)] # L2 THEN st
        ELSE LET series == [mean |-> track.mean,
                            name |-> Join(Slice(name, 1, Len(name) - 1))]
             IN  IF IsSmoothedUpdated(track)
                 THEN [st EXCEPT !.tracking = DictSet(st.tracking, ind, ToData(track)),
                                  !.res = Append(st.res, series),
                                  !.is_series_updated = TRUE,
                                  !.saves = @ + 1]
                 ELSE [st EXCEPT !.res = Append(st.res, series)]

\* one iteration of the loop over self.parameters.tracking.items(),
\* on st = [tracking, res, is_series_updated, saves]; saves counts the
\* calls of self.parameters.save() made so far
TrackingEntry(st, item) ==
    LET ind   == item[1]
        track == item[2]
        name  == Split(ind)
    IN  IF name[Len(name)] # L2 THEN st
        ELSE LET series == [mean |-> track.mean,
                            name |-> Join(Slice(name, 1, Len(name) - 1))]
             IN  IF IsSmoothedUpdated(track)
                 THEN [st EXCEPT !.tracking = DictSet(st.tracking, ind, ToData(track)),
                                  !.res = Append(st.res, series),
                                  !.is_series_updated = TRUE]
                 ELSE [st EXCEPT !.res = Append(st.res, series)]

RECURSIVE TrackingLoop(_, _)
TrackingLoop(st, items) ==
    IF items = <<>> THEN st
    ELSE TrackingLoop(TrackingEntry(st, Head(items)), Tail(items))

\* the place of a record in a descending, stably sorted sequence
RECURSIVE InsertDescending(_, _)
InsertDescending(sorted, r) ==
    IF sorted = <<>> THEN <<r>>
    ELSE LET last == sorted[Len(sorted)]
         IN  IF last.mean >= r.mean
             THEN Append(sorted, r)
             ELSE Append(InsertDescending(SubSeq(sorted, 1, Len(sorted) - 1), r), last)

\* mutant: the records are left in the order of the store
SortByMeanReverse_Unsorted(res) == res

\* res.sort(key=lambda s: s['mean'], reverse=True)
RECURSIVE SortByMeanReverse(_)
SortByMeanReverse(res) ==
    IF res = <<>> THEN <<>>
    ELSE InsertDescending(SortByMeanReverse(SubSeq(res, 1, Len(res) - 1)), res[Len(res)])

\* the whole method on the in-memory collection: the collection it leaves,
\* whether and how often it saved it, res as sorted, and the return value
get_tracking(parameters) ==
    LET st == TrackingLoop([tracking |-> parameters.tracking, res |-> <<>>,
                            is_series_updated |-> FALSE, saves |-> 0],
                           parameters.tracking)
        n_saves == st.saves + (IF st.is_series_updated THEN 1 ELSE 0)
    IN  [parameters |-> [parameters EXCEPT !.tracking = st.tracking],
         saved      |-> n_saves > 0,
         saves      |-> n_saves,
         sorted     |-> SortByMeanReverse(st.res),
         ret        |-> RemoveCommonPrefix(SortByMeanReverse(st.res))]

-----------------------------------------------------------------------------
(* labml_db: entities by key, and the run indices.                         *)

Runs == {"r1", "r2"}

\* Index.get(run_uuid)
IndexGet(index, run_uuid) == index[run_uuid]

\* Model.save() of an entity that has a key / key.load()
Put(table, key, entity) ==
    [k \in DOMAIN table \cup {key} |-> IF k = key THEN entity ELSE table[k]]

\* Model.delete() / Index.delete(run_uuid)
Remove(table, key) == [k \in DOMAIN table \ {key} |-> table[k]]

\* ParametersAnalysis(data)
Analysis(key, data) == [key |-> key, parameters |-> data]

\* the caller holds no object
NoAnalysis == Analysis(NoKey, NewParametersModel)

\* mutant: the index is not consulted, a collection is created on every call
get_or_create_AlwaysCreate(d, run_uuid) ==
    LET p_key  == d.nParameters + 1
        pp_key == d.nPreferences + 1
    IN  [db |-> [ParametersIndex |->
                     [d.ParametersIndex EXCEPT ![run_uuid] = p_key],
                 ParametersPreferencesIndex |->
                     [d.ParametersPreferencesIndex EXCEPT ![run_uuid] = pp_key],
                 parameters  |-> Put(d.parameters, p_key, NewParametersModel),
                 preferences |-> Put(d.preferences, pp_key, NewPreferencesModel),
                 nParameters  |-> p_key,
                 nPreferences |-> pp_key],
         ans |-> Analysis(p_key, NewParametersModel)]

\* mutant: a run without a collection gets none, and None is returned
get_or_create_GetOnly(d, run_uuid) ==
    LET parameters_key == IndexGet(d.ParametersIndex, run_uuid)
    IN  IF parameters_key = NoKey
        THEN [db |-> d, ans |-> NoAnalysis]
        ELSE [db |-> d, ans |-> Analysis(parameters_key, d.parameters[parameters_key])]

\* get_or_create run as one step: the database it leaves and the object it returns
get_or_create(d, run_uuid) ==
    LET parameters_key == IndexGet(d.ParametersIndex, run_uuid)
    IN  IF parameters_key = NoKey
        THEN LET p_key  == d.nParameters + 1
                 pp_key == d.nPreferences + 1
             IN  [db |-> [ParametersIndex |->
                              [d.ParametersIndex EXCEPT ![run_uuid] = p_key],
                          ParametersPreferencesIndex |->
                              [d.ParametersPreferencesIndex EXCEPT ![run_uuid] = pp_key],
                          parameters  |-> Put(d.parameters, p_key, NewParametersModel),
                          preferences |-> Put(d.preferences, pp_key, NewPreferencesModel),
                          nParameters  |-> p_key,
                          nPreferences |-> pp_key],
                  ans |-> Analysis(p_key, NewParametersModel)]
        ELSE [db |-> d, ans |-> Analysis(parameters_key, d.parameters[parameters_key])]

\* mutant: the preferences and their index entry are left behind
delete_KeepPreferences(d, run_uuid) ==
    LET parameters_key == IndexGet(d.ParametersIndex, run_uuid)
    IN  IF parameters_key # NoKey
        THEN [d EXCEPT !.ParametersIndex[run_uuid] = NoKey,
                       !.parameters = Remove(d.parameters, parameters_key)]
        ELSE d

\* delete run as one step
delete(d, run_uuid) ==
    LET parameters_key  == IndexGet(d.ParametersIndex, run_uuid)
        preferences_key == IndexGet(d.ParametersPreferencesIndex, run_uuid)
        d1 == IF parameters_key # NoKey
              THEN [d EXCEPT !.ParametersIndex[run_uuid] = NoKey,
                             !.parameters = Remove(d.parameters, parameters_key)]
              ELSE d
    IN  IF preferences_key # NoKey
        THEN [d1 EXCEPT !.ParametersPreferencesIndex[run_uuid] = NoKey,
                        !.preferences = Remove(d1.preferences, preferences_key)]
        ELSE d1

-----------------------------------------------------------------------------
(* Inputs.                                                                 *)

\* the longest track batch
MaxBatch == 2

\* the number of collections ever created
MaxCreates == 2

\* the values INDICATOR_LIMIT is configured to (a positive integer)
Limits == {1, 2}

\* a key from its segments
Key(segs) == Join(segs)

K_A_L2   == Key(<< <<"param">>, <<"a">>, <<"l2">> >>)
K_A_MEAN == Key(<< <<"param">>, <<"a">>, <<"mean">> >>)
K_B_L2   == Key(<< <<"param">>, <<"b">>, <<"l2">> >>)
K_GRAD   == Key(<< <<"grad">>, <<"a">>, <<"l2">> >>)
K_BARE   == Key(<< <<"param">> >>)

TrackKeys == {K_A_L2, K_A_MEAN, K_B_L2, K_GRAD, K_BARE}

\* the payload a key carries: a sample stands for its value, and every key
\* reports a value of its own
SampleOf(key) ==
    CASE key = K_A_L2   -> 2
      [] key = K_A_MEAN -> 4
      [] key = K_B_L2   -> 1
      [] key = K_GRAD   -> 5
      [] key = K_BARE   -> 3

\* data: Dict[str, SeriesModel], at most MaxBatch keys
Batches ==
    {[i \in 1..Len(ks) |-> <<ks[i], SampleOf(ks[i])>>] :
        ks \in {b \in UNION {[1..n -> TrackKeys] : n \in 0..MaxBatch} :
                   \A i, j \in 1..Len(b) : i # j => b[i] # b[j]}}

-----------------------------------------------------------------------------
(* The operations, one call at a time.                                     *)

EmptyDb ==
    [ParametersIndex            |-> [r \in Runs |-> NoKey],
     ParametersPreferencesIndex |-> [r \in Runs |-> NoKey],
     parameters   |-> <<>>,
     preferences  |-> <<>>,
     nParameters  |-> 0,
     nPreferences |-> 0]

HasAnalysis == ans.key # NoKey

\* the request handlers that may run at once
Handlers == {"h1", "h2"}

\* a handler that has not started: no object, nothing to do
IdleHandler ==
    [pc |-> "idle", ans |-> NoAnalysis, data |-> <<>>, res |-> <<>>]

\* the run whose collection the calls are made on
TheRun == "r1"

\* the collection of TheRun has just been created by get_or_create
Init ==
    /\ INDICATOR_LIMIT \in Limits
    /\ db = get_or_create(EmptyDb, TheRun).db
    /\ ans = get_or_create(EmptyDb, TheRun).ans
    /\ op = "get_or_create"
    /\ arg = TheRun
    /\ pre = None
    /\ forwarded = <<>>
    /\ ret = get_or_create(EmptyDb, TheRun).ans
    /\ detail = <<>>
    /\ saves = 2
    /\ response = None
    /\ handlers = [h \in Handlers |-> IdleHandler]

\* what an operation leaves for the observer
Observe(o, a, p, f, r, d, n) ==
    /\ op' = o
    /\ arg' = a
    /\ pre' = p
    /\ forwarded' = f
    /\ ret' = r
    /\ detail' = d
    /\ saves' = n

\* a collection can still be created for run_uuid, or it has one
CanGetOrCreate(run_uuid) ==
    db.ParametersIndex[run_uuid] = NoKey => db.nParameters < MaxCreates

GetOrCreate(run_uuid) ==
    /\ CanGetOrCreate(run_uuid)
    /\ LET g == get_or_create(db, run_uuid)
       IN  /\ db' = g.db
           /\ ans' = g.ans
           /\ Observe("get_or_create", run_uuid, None, <<>>, g.ans, <<>>,
                      IF db.ParametersIndex[run_uuid] = NoKey THEN 2 ELSE 0)
    /\ UNCHANGED <<INDICATOR_LIMIT, response, handlers>>

\* ans.track(data): the admission loop, SeriesCollection.track and its save
Track(data) ==
    /\ HasAnalysis
    /\ LET st == TrackLoop([indicators |-> ans.parameters.indicators, res |-> <<>>],
                           data)
           p  == [indicators |-> st.indicators,
                  tracking   |-> SeriesCollectionTrack(ans.parameters.tracking,
                                                       st.res)]
       IN  /\ ans' = [ans EXCEPT !.parameters = p]
           /\ db' = [db EXCEPT !.parameters = Put(db.parameters, ans.key, p)]
           /\ Observe("track", data, ans.parameters, <<st.res>>, None, <<>>, 1)
    /\ UNCHANGED <<INDICATOR_LIMIT, response, handlers>>

GetTrackSummaries ==
    /\ HasAnalysis
    /\ Observe("get_track_summaries", None, ans.parameters, <<>>,
               get_track_summaries(ans.parameters.tracking), <<>>, 0)
    /\ UNCHANGED <<INDICATOR_LIMIT, db, ans, response, handlers>>

GetTracking ==
    /\ HasAnalysis
    /\ LET t == get_tracking(ans.parameters)
       IN  /\ ans' = [ans EXCEPT !.parameters = t.parameters]
           /\ db' = IF t.saved
                    THEN [db EXCEPT !.parameters =
                                        Put(db.parameters, ans.key, t.parameters)]
                    ELSE db
           /\ Observe("get_tracking", None, ans.parameters, <<>>, t.ret, t.sorted,
                      t.saves)
    /\ UNCHANGED <<INDICATOR_LIMIT, response, handlers>>

\* delete(run_uuid); the caller drops the object of a collection it deleted,
\* and the observer is left the collection that was loaded and deleted
Delete(run_uuid) ==
    /\ db' = delete(db, run_uuid)
    /\ ans' = IF HasAnalysis /\ ans.key = db.ParametersIndex[run_uuid]
              THEN NoAnalysis ELSE ans
    /\ Observe("delete", run_uuid, None, <<>>, None,
               IF db.ParametersIndex[run_uuid] # NoKey
               THEN <<db.parameters[db.ParametersIndex[run_uuid]]>> ELSE <<>>,
               0)
    /\ UNCHANGED <<INDICATOR_LIMIT, response, handlers>>

\* if ans: an analysis object is true, None is not
Truthy(a) == a # NoAnalysis

\* GET parameters/{run_uuid}, a request of its own; saves counts the saves
\* of get_or_create and of get_tracking
get_params_tracking(run_uuid) ==
    /\ CanGetOrCreate(run_uuid)
    /\ LET g == get_or_create(db, run_uuid)
           t == get_tracking(g.ans.parameters)
           summary_data == get_track_summaries(t.parameters.tracking)
           created == Cardinality(DOMAIN g.db.parameters \ DOMAIN db.parameters)
                          + Cardinality(DOMAIN g.db.preferences \ DOMAIN db.preferences)
       IN  IF Truthy(g.ans)
           THEN /\ db' = IF t.saved
                         THEN [g.db EXCEPT !.parameters =
                                   Put(g.db.parameters, g.ans.key, t.parameters)]
                         ELSE g.db
                /\ response' = [status_code |-> 200, series |-> t.ret,
                                summary |-> summary_data]
                /\ Observe("get_params_tracking", run_uuid, g.ans.parameters, <<>>,
                           None, t.sorted, created + t.saves)
           ELSE /\ db' = g.db
                /\ response' = [status_code |-> 404, series |-> <<>>,
                                summary |-> <<>>]
                /\ Observe("get_params_tracking", run_uuid, None, <<>>, None, <<>>,
                           created)
    /\ UNCHANGED <<INDICATOR_LIMIT, ans, handlers>>

Next ==
    \/ \E data \in Batches : Track(data)
    \/ GetTrackSummaries
    \/ GetTracking

Spec == Init /\ [][Next]_vars

-----------------------------------------------------------------------------
(* The life of the collections of the runs: created on first access, read, *)
(* fed and deleted, one call at a time.                                    *)

LifeKeys == {K_A_L2, K_B_L2}

LifeBatches == {b \in Batches : b # <<>> /\ \A i \in 1..Len(b) : b[i][1] \in LifeKeys}

\* no run has a collection and no caller holds one
InitLife ==
    /\ INDICATOR_LIMIT \in Limits
    /\ db = EmptyDb
    /\ ans = NoAnalysis
    /\ op = "start"
    /\ arg = None
    /\ pre = None
    /\ forwarded = <<>>
    /\ ret = None
    /\ detail = <<>>
    /\ saves = 0
    /\ response = None
    /\ handlers = [h \in Handlers |-> IdleHandler]

NextLife ==
    \/ \E run_uuid \in Runs : GetOrCreate(run_uuid)
    \/ \E data \in LifeBatches : Track(data)
    \/ \E run_uuid \in Runs : Delete(run_uuid)
    \/ \E run_uuid \in Runs : get_params_tracking(run_uuid)

SpecLife == InitLife /\ [][NextLife]_vars

-----------------------------------------------------------------------------
(* The two views, applied to every tracking store of at most MaxStore      *)
(* entries over three parameters and two stat kinds.                       *)

\* the longest tracking store a view is applied to
MaxStore == 3

K_MA_L2   == Key(<< <<"param">>, <<"m">>, <<"a">>, <<"l2">> >>)
K_MA_MEAN == Key(<< <<"param">>, <<"m">>, <<"a">>, <<"mean">> >>)
K_MB_L2   == Key(<< <<"param">>, <<"m">>, <<"b">>, <<"l2">> >>)
K_MB_MEAN == Key(<< <<"param">>, <<"m">>, <<"b">>, <<"mean">> >>)
K_C_L2    == Key(<< <<"param">>, <<"c">>, <<"l2">> >>)

ViewKeys == {K_MA_L2, K_MA_MEAN, K_MB_L2, K_MB_MEAN, K_C_L2}

\* the summary means of the stored series
ViewMeans == {1, 2, 3}

\* the stored series of a key: get_tracking caches the smoothing of the
\* 'l2' series only, so a series of another stat kind is never cached
ViewSeries(key) ==
    {SeriesData(m, c) : m \in ViewMeans,
                        c \in IF StatKind(key) = L2 THEN BOOLEAN ELSE {FALSE}}

\* self.parameters.tracking, as track calls of any order can leave it
ViewStores ==
    UNION {{t \in [1..n -> UNION {{<<k, v>> : v \in ViewSeries(k)} : k \in ViewKeys}] :
               \A i, j \in 1..n : i # j => t[i][1] # t[j][1]} : n \in 0..MaxStore}

\* the collection that holds a store, with the identities of its keys tracked
ViewCollection(tracking) ==
    [indicators |-> {IndName(tracking[i][1]) : i \in 1..Len(tracking)},
     tracking   |-> tracking]

InitView ==
    /\ INDICATOR_LIMIT = Cardinality({IndName(k) : k \in ViewKeys})
    /\ \E tracking \in ViewStores :
           LET g == get_or_create(EmptyDb, TheRun)
               p == ViewCollection(tracking)
           IN  /\ db = [g.db EXCEPT !.parameters = Put(g.db.parameters, g.ans.key, p)]
               /\ ans = Analysis(g.ans.key, p)
    /\ op = "load"
    /\ arg = TheRun
    /\ pre = None
    /\ forwarded = <<>>
    /\ ret = None
    /\ detail = <<>>
    /\ saves = 0
    /\ response = None
    /\ handlers = [h \in Handlers |-> IdleHandler]

NextView ==
    \/ GetTrackSummaries
    \/ GetTracking

SpecView == InitView /\ [][NextView]_vars

-----------------------------------------------------------------------------
(* Request handlers of one run running at once. Each works on the object   *)
(* it loaded; a save writes that whole object under its key.               *)

ConcKeys == {K_A_L2, K_A_MEAN, K_B_L2}

ConcBatches == {b \in Batches : \A i \in 1..Len(b) : b[i][1] \in ConcKeys}

\* an ingest request starts: ans = ParametersAnalysis.get_or_create(run_uuid)
HGetOrCreate(h, data) ==
    /\ handlers[h].pc = "idle"
    /\ CanGetOrCreate(TheRun)
    /\ LET g == get_or_create(db, TheRun)
       IN  /\ db' = g.db
           /\ handlers' = [handlers EXCEPT ![h] =
                   [pc |-> "track", ans |-> g.ans, data |-> data, res |-> <<>>]]
    /\ UNCHANGED <<INDICATOR_LIMIT, callerVars>>

\* ans.track(data): one iteration of its loop
HTrackKey(h) ==
    /\ handlers[h].pc = "track"
    /\ handlers[h].data # <<>>
    /\ LET me == handlers[h]
           st == TrackKey([indicators |-> me.ans.parameters.indicators,
                           res |-> me.res], Head(me.data))
       IN  handlers' = [handlers EXCEPT ![h] =
               [me EXCEPT !.ans.parameters.indicators = st.indicators,
                          !.res = st.res,
                          !.data = Tail(me.data)]]
    /\ UNCHANGED <<INDICATOR_LIMIT, db, callerVars>>

\* ans.track(data): self.parameters.track(res), which saves the collection
HSeriesTrack(h) ==
    /\ handlers[h].pc = "track"
    /\ handlers[h].data = <<>>
    /\ LET me == handlers[h]
           p  == [me.ans.parameters EXCEPT
                     !.tracking = SeriesCollectionTrack(@, me.res)]
       IN  /\ handlers' = [handlers EXCEPT ![h] =
                   [me EXCEPT !.ans.parameters = p, !.pc = "done"]]
           /\ db' = [db EXCEPT !.parameters = Put(db.parameters, me.ans.key, p)]
    /\ UNCHANGED <<INDICATOR_LIMIT, callerVars>>

ConcNext ==
    \E h \in Handlers :
        \/ \E data \in ConcBatches : HGetOrCreate(h, data)
        \/ HTrackKey(h)
        \/ HSeriesTrack(h)

SpecConc == Init /\ [][ConcNext]_vars

-----------------------------------------------------------------------------
(* Properties of track (ingest), one call at a time.                       *)

\* the first dot-separated segment of a key is the parameter discriminator
ParameterType(key) == Split(key)[1] = PARAM

\* the key without its last segment
CanonicalIdentity(key) ==
    LET segs == Split(key) IN Join(SubSeq(segs, 1, Len(segs) - 1))

\* the identities a batch offers that the set does not hold, in the order of
\* their first key
RECURSIVE NewIdentities(_, _)
NewIdentities(data, tracked) ==
    IF data = <<>> THEN <<>>
    ELSE LET key  == data[Len(data)][1]
             rest == NewIdentities(SubSeq(data, 1, Len(data) - 1), tracked)
         IN  IF /\ ParameterType(key)
                /\ CanonicalIdentity(key) \notin tracked
                /\ \A i \in 1..Len(rest) : rest[i] # CanonicalIdentity(key)
             THEN Append(rest, CanonicalIdentity(key))
             ELSE rest

Min(a, b) == IF a <= b THEN a ELSE b

TrackRan == op = "track"

\* C1: in every reachable state the tracked set of the collection, in memory
\* and as persisted, holds at most INDICATOR_LIMIT canonical identities.
C1_TrackedSetBounded ==
    /\ Cardinality(ans.parameters.indicators) <= INDICATOR_LIMIT
    /\ \A k \in DOMAIN db.parameters :
           Cardinality(db.parameters[k].indicators) <= INDICATOR_LIMIT

\* a track call was offered more new identities than there were free slots
C1_Witness ==
    /\ TrackRan
    /\ Len(NewIdentities(arg, pre.indicators))
           > INDICATOR_LIMIT - Cardinality(pre.indicators)
    /\ Cardinality(ans.parameters.indicators) = INDICATOR_LIMIT

\* C3: every parameter-type key of a track batch whose canonical identity
\* was in the tracked set before the call is in the batch forwarded to the
\* series store, with its payload.
C3_TrackedIdentityForwarded ==
    [][op' = "track" =>
          \A i \in 1..Len(arg') :
              (/\ ParameterType(arg'[i][1])
               /\ CanonicalIdentity(arg'[i][1]) \in ans.parameters.indicators)
              => /\ Len(forwarded') = 1
                 /\ \E j \in 1..Len(forwarded'[1]) : forwarded'[1][j] = arg'[i]]_vars

\* a key with a stat kind not stored before, of an identity tracked before
\* the call, was forwarded while other identities filled the tracked set
C3_Witness ==
    /\ TrackRan
    /\ Cardinality(pre.indicators) = INDICATOR_LIMIT
    /\ Cardinality(pre.indicators) >= 2
    /\ \E i \in 1..Len(arg) :
           /\ CanonicalIdentity(arg[i][1]) \in pre.indicators
           /\ ~DictHas(pre.tracking, arg[i][1])
           /\ DictHas(forwarded[1], arg[i][1])

\* C4: a key whose first segment is not the parameter discriminator is not
\* forwarded, and the identities a track call adds are all identities of
\* parameter-type keys of its batch.
C4_OtherTypesIgnored ==
    TrackRan =>
        /\ \A i \in 1..Len(arg) :
               ~ParameterType(arg[i][1]) =>
                   /\ \A b \in 1..Len(forwarded) : ~DictHas(forwarded[b], arg[i][1])
                   /\ ~DictHas(ans.parameters.tracking, arg[i][1])
                   /\ CanonicalIdentity(arg[i][1]) \notin ans.parameters.indicators
        /\ ans.parameters.indicators \ pre.indicators
               \subseteq {CanonicalIdentity(arg[i][1]) :
                             i \in {j \in 1..Len(arg) : ParameterType(arg[j][1])}}

\* a batch of keys of another type only ran while slots were free
C4_Witness ==
    /\ TrackRan
    /\ Len(arg) > 0
    /\ \A i \in 1..Len(arg) : ~ParameterType(arg[i][1])
    /\ Cardinality(pre.indicators) < INDICATOR_LIMIT
    /\ ans.parameters.indicators = pre.indicators

\* C5: a track batch that offers k distinct new identities while r slots are
\* free admits the first min(k, r) of them, in the order of their first key,
\* and forwards no key of the others.
C5_IncrementalAdmission ==
    TrackRan =>
        LET offered  == NewIdentities(arg, pre.indicators)
            r        == INDICATOR_LIMIT - Cardinality(pre.indicators)
            admitted == {offered[i] : i \in 1..Min(Len(offered), r)}
            dropped  == {offered[i] : i \in (Min(Len(offered), r) + 1)..Len(offered)}
        IN  /\ ans.parameters.indicators = pre.indicators \cup admitted
            /\ Cardinality(ans.parameters.indicators)
                   = Cardinality(pre.indicators) + Min(Len(offered), r)
            /\ \A i \in 1..Len(arg) :
                   (ParameterType(arg[i][1]) /\ CanonicalIdentity(arg[i][1]) \in dropped)
                   => ~DictHas(forwarded[1], arg[i][1])

\* one slot was free and the batch carried two new identities
C5_Witness ==
    /\ TrackRan
    /\ INDICATOR_LIMIT - Cardinality(pre.indicators) = 1
    /\ Len(NewIdentities(arg, pre.indicators)) = 2
    /\ Cardinality(ans.parameters.indicators \ pre.indicators) = 1

\* C6: over track, get_track_summaries and get_tracking calls the tracked
\* set only grows, and once it holds INDICATOR_LIMIT identities it never
\* changes.
C6_TrackedSetMonotonic ==
    [][/\ ans.parameters.indicators \subseteq ans'.parameters.indicators
       /\ Cardinality(ans.parameters.indicators) >= INDICATOR_LIMIT
              => ans'.parameters.indicators = ans.parameters.indicators
       /\ db.parameters[ans.key].indicators
              \subseteq db'.parameters[ans.key].indicators]_vars

\* a new identity was offered to a full tracked set, which kept its members
C6_Witness ==
    /\ TrackRan
    /\ Cardinality(pre.indicators) = INDICATOR_LIMIT
    /\ Len(NewIdentities(arg, pre.indicators)) > 0
    /\ ans.parameters.indicators = pre.indicators
    /\ Len(forwarded[1]) > 0

\* the items of a batch a track call accepts, given the tracked set it leaves
RECURSIVE Accepted(_, _)
Accepted(data, tracked) ==
    IF data = <<>> THEN <<>>
    ELSE (IF /\ ParameterType(Head(data)[1])
             /\ CanonicalIdentity(Head(data)[1]) \in tracked
          THEN <<Head(data)>> ELSE <<>>) \o Accepted(Tail(data), tracked)

\* C7: a track call forwards exactly one batch, the accepted items of its
\* input in their order and with their payloads, and the identities it adds
\* are identities of forwarded keys.
C7_ForwardsAcceptedSubset ==
    TrackRan =>
        /\ Len(forwarded) = 1
        /\ forwarded[1] = Accepted(arg, ans.parameters.indicators)
        /\ \A i \in 1..Len(arg) :
               (\A j \in 1..Len(forwarded[1]) : forwarded[1][j][1] # arg[i][1])
               => \/ ~ParameterType(arg[i][1])
                  \/ /\ CanonicalIdentity(arg[i][1]) \notin pre.indicators
                     /\ Cardinality(ans.parameters.indicators) = INDICATOR_LIMIT
        /\ ans.parameters.indicators \ pre.indicators
               \subseteq {CanonicalIdentity(forwarded[1][j][1]) :
                             j \in 1..Len(forwarded[1])}

\* of a batch of two keys one was forwarded and the other rejected by the cap
C7_Witness ==
    /\ TrackRan
    /\ Len(arg) = 2
    /\ Len(forwarded) = 1
    /\ Len(forwarded[1]) = 1
    /\ \E i \in 1..2 :
           /\ ParameterType(arg[i][1])
           /\ ~DictHas(forwarded[1], arg[i][1])

-----------------------------------------------------------------------------
(* Properties of ingest requests running at once.                          *)

\* C2: whatever the interleaving of the loads, admission steps and saves of
\* two ingest requests of one run, every persisted collection holds at most
\* INDICATOR_LIMIT identities.
C2_ConcurrentIngestBounded ==
    \A k \in DOMAIN db.parameters :
        Cardinality(db.parameters[k].indicators) <= INDICATOR_LIMIT

\* both requests loaded the collection before either saved, and together
\* they admitted more identities than the limit
C2_Witness ==
    /\ \A h \in Handlers : handlers[h].pc = "done"
    /\ Cardinality(UNION {handlers[h].ans.parameters.indicators : h \in Handlers})
           > INDICATOR_LIMIT

-----------------------------------------------------------------------------
(* Properties of the two views.                                            *)

\* the last segment of a stored key
KeyStat(key) == LET segs == Split(key) IN segs[Len(segs)]

\* a stored key without its first and its last segment
KeyName(key) == LET segs == Split(key) IN Join(SubSeq(segs, 2, Len(segs) - 1))

\* a store read as the observer reads it: for every entry, in its order, the
\* parameter name and the stat kind of the key and the stored mean
RECURSIVE Entries(_)
Entries(store) ==
    IF store = <<>> THEN <<>>
    ELSE <<[name |-> KeyName(Head(store)[1]),
            stat |-> KeyStat(Head(store)[1]),
            mean |-> Head(store)[2].mean]>> \o Entries(Tail(store))

\* the places whose key belongs to a parameter with an 'l2' key
RankedPlaces(e) ==
    {i \in 1..Len(e) :
        \E j \in 1..Len(e) : e[j].name = e[i].name /\ e[j].stat = L2}

SummariesRan == op = "get_track_summaries"

\* C8: every record get_track_summaries returns is named by a stat kind of a
\* parameter that has an 'l2' key, every value in it is the mean of such a
\* parameter's key of that stat kind, and with no 'l2' key in the store the
\* result is the empty sequence.
C8_SummaryOnlyRanked ==
    SummariesRan =>
        LET e      == Entries(pre.tracking)
            ranked == RankedPlaces(e)
        IN  /\ \A r \in 1..Len(ret) :
                   /\ \E i \in ranked : e[i].stat = ret[r].name
                   /\ \A v \in 1..Len(ret[r].value) :
                          \E i \in ranked :
                              e[i].stat = ret[r].name /\ e[i].mean = ret[r].value[v]
                   /\ Len(ret[r].value)
                          < Cardinality({i \in ranked : e[i].stat = ret[r].name})
            /\ (\A i \in 1..Len(e) : e[i].stat # L2) => ret = <<>>

\* the store held a stat kind carried only by a parameter without 'l2',
\* beside a parameter with 'l2', and the result has no record of that kind
C8_Witness ==
    /\ SummariesRan
    /\ Len(ret) > 0
    /\ LET e == Entries(pre.tracking)
       IN  \E i \in 1..Len(e) :
               /\ i \notin RankedPlaces(e)
               /\ \A r \in 1..Len(ret) : ret[r].name # e[i].stat

\* nothing in the store had stat kind 'l2' and the result was empty
C8_WitnessEmpty ==
    /\ SummariesRan
    /\ Len(pre.tracking) > 0
    /\ \A i \in 1..Len(pre.tracking) : KeyStat(pre.tracking[i][1]) # L2
    /\ ret = <<>>

\* the parameter names that have an 'l2' key, in the order of their first key
RECURSIVE RankedNames(_, _)
RankedNames(e, n) ==
    IF n = 0 THEN <<>>
    ELSE LET rest == RankedNames(e, n - 1)
         IN  IF n \in RankedPlaces(e)
                /\ \A i \in 1..Len(rest) : rest[i] # e[n].name
             THEN Append(rest, e[n].name) ELSE rest

\* the place of the key of a parameter name and a stat kind, 0 if none
PlaceOf(e, name, stat) ==
    IF \E i \in 1..Len(e) : e[i].name = name /\ e[i].stat = stat
    THEN CHOOSE i \in 1..Len(e) : e[i].name = name /\ e[i].stat = stat
    ELSE 0

\* the ranked names in ascending order of their 'l2' mean, equal means in the
\* order of the store
Ascending(e) ==
    LET names == RankedNames(e, Len(e))
        n     == Len(names)
        l2    == [i \in 1..n |-> e[PlaceOf(e, names[i], L2)].mean]
        place == [i \in 1..n |->
                     1 + Cardinality({j \in 1..n :
                             l2[j] < l2[i] \/ (l2[j] = l2[i] /\ j < i)})]
    IN  [q \in 1..n |-> names[CHOOSE i \in 1..n : place[i] = q]]

\* the means of one stat kind along a sequence of names
RECURSIVE MeansAlong(_, _, _)
MeansAlong(e, names, stat) ==
    IF names = <<>> THEN <<>>
    ELSE (IF PlaceOf(e, Head(names), stat) # 0
          THEN <<e[PlaceOf(e, Head(names), stat)].mean>> ELSE <<>>)
         \o MeansAlong(e, Tail(names), stat)

\* the first place of a stat kind in the walk over the sorted groups: the
\* rank of its first group, then the place of its key among the group's keys
FirstSeen(e, names, stat) ==
    LET g == CHOOSE q \in 1..Len(names) :
                 /\ PlaceOf(e, names[q], stat) # 0
                 /\ \A p \in 1..(q - 1) : PlaceOf(e, names[p], stat) = 0
    IN  <<g, PlaceOf(e, names[g], stat)>>

Before(a, b) == a[1] < b[1] \/ (a[1] = b[1] /\ a[2] < b[2])

\* C9: in the result of get_track_summaries the values of every record are
\* the means of its stat kind along the retained groups in ascending order
\* of their 'l2' mean, less the first; the values of the record named 'l2'
\* do not decrease; and the records are in the order in which their stat
\* kinds are first seen along the sorted groups.
C9_SummaryOrdered ==
    SummariesRan =>
        LET e      == Entries(pre.tracking)
            sorted == Ascending(e)
        IN  /\ \A r \in 1..Len(ret) :
                   ret[r].value = Tail(MeansAlong(e, sorted, ret[r].name))
            /\ \A r \in 1..Len(ret) :
                   ret[r].name = L2 =>
                       \A i, j \in 1..Len(ret[r].value) :
                           i < j => ret[r].value[i] <= ret[r].value[j]
            /\ \A r \in 1..(Len(ret) - 1) :
                   Before(FirstSeen(e, sorted, ret[r].name),
                          FirstSeen(e, sorted, ret[r + 1].name))

\* three groups stored out of order: the 'l2' record rises strictly
C9_Witness ==
    /\ SummariesRan
    /\ \E r \in 1..Len(ret) :
           /\ ret[r].name = L2
           /\ Len(ret[r].value) = 2
           /\ ret[r].value[1] < ret[r].value[2]
    /\ pre.tracking[1][2].mean > pre.tracking[2][2].mean
    /\ pre.tracking[1][2].mean > pre.tracking[3][2].mean

TrackingRan == op = "get_tracking"

\* the places of a store whose key ends in 'l2'
L2Places(store) == {i \in 1..Len(store) : KeyStat(store[i][1]) = L2}

\* C10: get_tracking returns as many records as the store has keys ending in
\* 'l2'; before the names are compressed each such key has its record, named
\* by the key without its first and last segments and carrying its mean, and
\* there is no other record; an empty store gives an empty sequence.
C10_DetailOnePerL2Key ==
    TrackingRan =>
        LET store == pre.tracking
        IN  /\ Len(ret) = Cardinality(L2Places(store))
            /\ Len(detail) = Len(ret)
            /\ \A i \in L2Places(store) :
                   Cardinality({r \in 1..Len(detail) :
                                   detail[r].name = KeyName(store[i][1])}) = 1
            /\ \A r \in 1..Len(detail) :
                   \E i \in L2Places(store) :
                       /\ detail[r].name = KeyName(store[i][1])
                       /\ detail[r].mean = store[i][2].mean
            /\ \A r \in 1..Len(ret) : ret[r].mean = detail[r].mean
            /\ store = <<>> => ret = <<>>

\* a store with two 'l2' keys and a key of another stat kind gave two
\* records, whose names were then compressed
C10_Witness ==
    /\ TrackingRan
    /\ Len(ret) = 2
    /\ Len(pre.tracking) = 3
    /\ \E r \in 1..2 : ret[r].name # detail[r].name

\* get_tracking on the empty store
C10_WitnessEmpty ==
    /\ TrackingRan
    /\ pre.tracking = <<>>
    /\ ret = <<>>

\* C11: the records get_tracking returns are in descending order of their
\* mean, whatever the order of the tracking store: of two adjacent records
\* the earlier has the greater or the equal mean.
C11_DetailSortedDescending ==
    TrackingRan =>
        \A r \in 1..(Len(ret) - 1) : ret[r].mean >= ret[r + 1].mean

\* the store held its 'l2' series in rising order of their means, and the
\* records came back in falling order
C11_Witness ==
    /\ TrackingRan
    /\ Len(ret) >= 2
    /\ ret[1].mean > ret[2].mean
    /\ LET store == pre.tracking
       IN  \E i, j \in L2Places(store) :
               /\ i < j
               /\ store[i][2].mean < store[j][2].mean
               /\ store[i][2].mean = ret[2].mean
               /\ store[j][2].mean = ret[1].mean

\* the places of a store whose 'l2' series reports is_smoothed_updated
StalePlaces(store) == {i \in L2Places(store) : IsSmoothedUpdated(store[i][2])}

\* C12: one get_tracking call saves the collection at most once, however many
\* series it refreshed; it saves if and only if an 'l2' series of the store
\* reported updated; what it saved is the collection with every such series
\* refreshed, so the save came after the last of them; and
\* get_track_summaries saves nothing.
C12_DetailSavesOnce ==
    /\ TrackingRan =>
           /\ saves <= 1
           /\ saves = 1 <=> StalePlaces(pre.tracking) # {}
           /\ saves = 1 =>
                  /\ db.parameters[ans.key] = ans.parameters
                  /\ StalePlaces(db.parameters[ans.key].tracking) = {}
           /\ saves = 0 => db.parameters[ans.key] = pre
    /\ SummariesRan => saves = 0 /\ db.parameters[ans.key] = pre

\* two 'l2' series were refreshed by one call, which saved once
C12_Witness ==
    /\ TrackingRan
    /\ Cardinality(StalePlaces(pre.tracking)) >= 2
    /\ saves = 1
    /\ db.parameters[ans.key] # pre

-----------------------------------------------------------------------------
(* Properties of the life of a collection, one call at a time.             *)

\* the keys of the entities of a table
Keys(table) == DOMAIN table

\* C13: a get_or_create call for a run without a collection creates one
\* collection entity and one preferences entity and registers both for the
\* run, leaving the rest of the database alone; a call for a run that has a
\* collection creates no entity, changes no index and returns the persisted
\* collection of the run (its tracked set and tracking store as the ingests
\* left them).
C13_GetOrCreateIdempotent ==
    [][op' = "get_or_create" =>
          LET run == arg'
              key == db.ParametersIndex[run]
          IN  IF key = NoKey
              THEN /\ Cardinality(Keys(db'.parameters) \ Keys(db.parameters)) = 1
                   /\ Cardinality(Keys(db'.preferences) \ Keys(db.preferences)) = 1
                   /\ Keys(db.parameters) \subseteq Keys(db'.parameters)
                   /\ Keys(db.preferences) \subseteq Keys(db'.preferences)
                   /\ db'.ParametersIndex[run] \in
                          Keys(db'.parameters) \ Keys(db.parameters)
                   /\ db'.ParametersPreferencesIndex[run] \in
                          Keys(db'.preferences) \ Keys(db.preferences)
                   /\ \A k \in Keys(db.parameters) :
                          db'.parameters[k] = db.parameters[k]
                   /\ \A r \in Runs \ {run} :
                          /\ db'.ParametersIndex[r] = db.ParametersIndex[r]
                          /\ db'.ParametersPreferencesIndex[r] =
                                 db.ParametersPreferencesIndex[r]
                   /\ ret'.key = db'.ParametersIndex[run]
              ELSE /\ db' = db
                   /\ ret'.key = key
                   /\ ret'.parameters = db.parameters[key]
    ]_vars

\* a later call returned the collection an ingest had filled, and saved
\* nothing
C13_Witness ==
    /\ op = "get_or_create"
    /\ saves = 0
    /\ ret.parameters.indicators # {}
    /\ ret.parameters.tracking # <<>>
    /\ ret.parameters = db.parameters[db.ParametersIndex[arg]]

\* the collection index entry, the collection entity, the preferences index
\* entry and the preferences entity of a run
HasIndexEntry(d, run) == d.ParametersIndex[run] # NoKey

HasCollection(d, run) == d.ParametersIndex[run] \in Keys(d.parameters)

HasPreferencesEntry(d, run) == d.ParametersPreferencesIndex[run] # NoKey

HasPreferences(d, run) == d.ParametersPreferencesIndex[run] \in Keys(d.preferences)

AllPresent(d, run) ==
    /\ HasIndexEntry(d, run)
    /\ HasCollection(d, run)
    /\ HasPreferencesEntry(d, run)
    /\ HasPreferences(d, run)

AllAbsent(d, run) ==
    /\ ~HasIndexEntry(d, run)
    /\ ~HasCollection(d, run)
    /\ ~HasPreferencesEntry(d, run)
    /\ ~HasPreferences(d, run)

\* no entity is left that no index refers to
NoOrphan(d) ==
    /\ \A k \in Keys(d.parameters) : \E r \in Runs : d.ParametersIndex[r] = k
    /\ \A k \in Keys(d.preferences) : \E r \in Runs : d.ParametersPreferencesIndex[r] = k

\* C14: with the calls made one at a time, the four parts of every run are
\* all present or all absent after every call; a delete leaves the four
\* parts of its run absent and no entity behind; and a delete for a run that
\* has none of them changes nothing in the database.
C14_CreatedDeletedInLockstep ==
    [][/\ \A run \in Runs : AllPresent(db', run) \/ AllAbsent(db', run)
       /\ op' = "delete" =>
              /\ AllAbsent(db', arg')
              /\ NoOrphan(db')
              /\ AllAbsent(db, arg') => db' = db
    ]_vars

\* the collection of a run, fed by an ingest, has been deleted, while the
\* other run keeps its four parts
C14_Witness ==
    /\ op = "delete"
    /\ Len(detail) = 1
    /\ detail[1].indicators # {}
    /\ AllAbsent(db, arg)
    /\ \E run \in Runs : AllPresent(db, run)

\* a delete for a run that has no collection, beside a run that has one
C14_WitnessNoOp ==
    /\ op = "delete"
    /\ detail = <<>>
    /\ \E run \in Runs : AllPresent(db, run)

ReadRan == op = "get_params_tracking"

\* C16: every response of GET parameters/{run_uuid} has status 200, never
\* 404, and the response for a run that had no collection carries an empty
\* 'series' and an empty 'summary'.
C16_ReadOfAbsentRunIsEmpty ==
    [][op' = "get_params_tracking" =>
          /\ response'.status_code = 200
          /\ response'.status_code # 404
          /\ AllAbsent(db, arg') =>
                 /\ response'.series = <<>>
                 /\ response'.summary = <<>>
    ]_vars

\* the read of a run without a collection, which created one on the way,
\* while the other run has a collection with stored series
C16_Witness ==
    /\ ReadRan
    /\ saves = 2
    /\ response = [status_code |-> 200, series |-> <<>>, summary |-> <<>>]
    /\ \E run \in Runs \ {arg} :
           /\ AllPresent(db, run)
           /\ db.parameters[db.ParametersIndex[run]].tracking # <<>>

-----------------------------------------------------------------------------
(* Keys without the [type, path..., stat] structure.                       *)

\* a key with no separator: it has neither a path nor a stat segment of its
\* own
Malformed(key) == Len(Split(key)) < 2

\* C15: a key without the segment structure, such as the bare parameter
\* discriminator, is rejected by track: it is not forwarded to the series
\* store and its identity is not added to the tracked set, so it takes no
\* admission slot.
C15_MalformedKeyRejected ==
    TrackRan =>
        \A i \in 1..Len(arg) :
            Malformed(arg[i][1]) =>
                /\ \A j \in 1..Len(forwarded[1]) : forwarded[1][j][1] # arg[i][1]
                /\ CanonicalIdentity(arg[i][1]) \notin
                       ans.parameters.indicators \ pre.indicators
                /\ (\A j \in 1..Len(arg) : Malformed(arg[j][1])) =>
                       ans.parameters.indicators = pre.indicators

-----------------------------------------------------------------------------
(* The length of the summary records.                                      *)

\* the parameter names that have an 'l2' key: the groups retained
RetainedNames(e) == {e[i].name : i \in RankedPlaces(e)}

\* the retained groups that carry a stat kind
CarryingNames(e, stat) == {e[i].name : i \in {j \in RankedPlaces(e) : e[j].stat = stat}}

\* C17 as stated: every record of get_track_summaries has one value less
\* than there are retained groups, whatever its stat kind.
C17_SummaryLengthAllGroups ==
    SummariesRan =>
        LET e == Entries(pre.tracking)
        IN  \A r \in 1..Len(ret) :
                Len(ret[r].value) = Cardinality(RetainedNames(e)) - 1

\* C17 as amended: every record of get_track_summaries has one value less
\* than there are retained groups that carry its stat kind; for 'l2', which
\* every retained group carries, that is one less than the number of retained
\* groups; and with a single retained group every record is empty.
C17_SummaryLengthCarryingGroups ==
    SummariesRan =>
        LET e == Entries(pre.tracking)
        IN  /\ \A r \in 1..Len(ret) :
                   Len(ret[r].value) = Cardinality(CarryingNames(e, ret[r].name)) - 1
            /\ \A r \in 1..Len(ret) :
                   ret[r].name = L2 =>
                       Len(ret[r].value) = Cardinality(RetainedNames(e)) - 1
            /\ Cardinality(RetainedNames(e)) = 1 =>
                   \A r \in 1..Len(ret) : ret[r].value = <<>>

\* two groups were retained and only one of them carries a second stat kind:
\* the 'l2' record has one value and the record of that kind has none
C17_Witness ==
    /\ SummariesRan
    /\ Cardinality(RetainedNames(Entries(pre.tracking))) = 2
    /\ \E r, s \in 1..Len(ret) :
           /\ ret[r].name = L2
           /\ Len(ret[r].value) = 1
           /\ ret[s].name # L2
           /\ ret[s].value = <<>>

-----------------------------------------------------------------------------
(* The tracking store and the tracked set.                                 *)

\* every key of the store is of the parameter type and its identity is
\* tracked
StoreWithinTrackedSet(p) ==
    \A i \in 1..Len(p.tracking) :
        /\ ParameterType(p.tracking[i][1])
        /\ CanonicalIdentity(p.tracking[i][1]) \in p.indicators

\* C18: after every track and get_tracking call every key of the tracking
\* store, in memory and as persisted, has the parameter discriminator as its
\* first segment and its canonical identity in the tracked set; and a
\* get_tracking call leaves the keys of the store and the tracked set as they
\* were, replacing only the stored value of 'l2' keys it refreshed.
C18_StoreKeysTracked ==
    [][/\ StoreWithinTrackedSet(ans'.parameters)
       /\ StoreWithinTrackedSet(db'.parameters[ans'.key])
       /\ op' = "get_tracking" =>
              LET old == ans.parameters
                  new == ans'.parameters
              IN  /\ new.indicators = old.indicators
                  /\ Len(new.tracking) = Len(old.tracking)
                  /\ \A i \in 1..Len(old.tracking) :
                         /\ new.tracking[i][1] = old.tracking[i][1]
                         /\ \/ new.tracking[i][2] = old.tracking[i][2]
                            \/ /\ i \in StalePlaces(old.tracking)
                               /\ new.tracking[i][2] = ToData(old.tracking[i][2])
    ]_vars

\* get_tracking refreshed and saved a store of several keys whose tracked set
\* is full
C18_Witness ==
    /\ TrackingRan
    /\ saves = 1
    /\ Len(ans.parameters.tracking) >= 2
    /\ ans.parameters.tracking # pre.tracking
    /\ Cardinality(ans.parameters.indicators) = INDICATOR_LIMIT

-----------------------------------------------------------------------------
(* A read request running beside ingest requests of the same run. A reader *)
(* holds the locals of get_tracking: the object it loaded, the items left   *)
(* to iterate, res and is_series_updated.                                   *)

\* the collection of TheRun after track({'param.a.l2': s}): one series
\* stored, its smoothing not yet cached
RaceCollection ==
    LET data == << <<K_A_L2, SampleOf(K_A_L2)>> >>
        st   == TrackLoop([indicators |-> {}, res |-> <<>>], data)
    IN  [indicators |-> st.indicators,
         tracking   |-> SeriesCollectionTrack(<<>>, st.res)]

InitRace ==
    /\ INDICATOR_LIMIT \in Limits
    /\ LET g == get_or_create(EmptyDb, TheRun)
       IN  db = [g.db EXCEPT !.parameters =
                                 Put(g.db.parameters, g.ans.key, RaceCollection)]
    /\ ans = NoAnalysis
    /\ op = "start"
    /\ arg = None
    /\ pre = None
    /\ forwarded = <<>>
    /\ ret = None
    /\ detail = <<>>
    /\ saves = 0
    /\ response = None
    /\ handlers = [h \in Handlers |-> IdleHandler]

\* a read request starts: ans = ParametersAnalysis.get_or_create(run_uuid),
\* and get_tracking begins to iterate the tracking store it loaded
HReadStart(h) ==
    /\ handlers[h].pc = "idle"
    /\ CanGetOrCreate(TheRun)
    /\ LET g == get_or_create(db, TheRun)
       IN  /\ db' = g.db
           /\ handlers' = [handlers EXCEPT ![h] =
                   [pc |-> "read", ans |-> g.ans,
                    items |-> g.ans.parameters.tracking, res |-> <<>>,
                    is_series_updated |-> FALSE, saves |-> 0]]
    /\ UNCHANGED <<INDICATOR_LIMIT, callerVars>>

\* ans.get_tracking(): one iteration of its loop
HTrackingEntry(h) ==
    /\ handlers[h].pc = "read"
    /\ handlers[h].items # <<>>
    /\ LET me == handlers[h]
           st == TrackingEntry([tracking |-> me.ans.parameters.tracking,
                                res |-> me.res,
                                is_series_updated |-> me.is_series_updated,
                                saves |-> me.saves],
                               Head(me.items))
       IN  handlers' = [handlers EXCEPT ![h] =
               [me EXCEPT !.ans.parameters.tracking = st.tracking,
                          !.res = st.res,
                          !.is_series_updated = st.is_series_updated,
                          !.saves = st.saves,
                          !.items = Tail(me.items)]]
    /\ UNCHANGED <<INDICATOR_LIMIT, db, callerVars>>

\* ans.get_tracking(): after the loop, the save of the collection if a
\* series was refreshed, and the return
HTrackingSave(h) ==
    /\ handlers[h].pc = "read"
    /\ handlers[h].items = <<>>
    /\ LET me == handlers[h]
       IN  /\ db' = IF me.is_series_updated
                    THEN [db EXCEPT !.parameters =
                                        Put(db.parameters, me.ans.key, me.ans.parameters)]
                    ELSE db
           /\ handlers' = [handlers EXCEPT ![h] =
                   [me EXCEPT !.pc = "read_done",
                              !.res = RemoveCommonPrefix(SortByMeanReverse(me.res))]]
    /\ UNCHANGED <<INDICATOR_LIMIT, callerVars>>

RaceNext ==
    \E h \in Handlers :
        \/ \E data \in ConcBatches : HGetOrCreate(h, data)
        \/ HTrackKey(h)
        \/ HSeriesTrack(h)
        \/ HReadStart(h)
        \/ HTrackingEntry(h)
        \/ HTrackingSave(h)

SpecRace == InitRace /\ [][RaceNext]_vars

\* the collection the index of TheRun refers to, as persisted
Persisted == db.parameters[db.ParametersIndex[TheRun]]

\* C19: when a get_tracking read that refreshed a series and saved, and a
\* track call of the same run, have both finished, the persisted collection
\* holds every identity the track call had in its tracked set and every key
\* it wrote to the tracking store, whatever the interleaving.
C19_ReadKeepsIngest ==
    \A r, i \in Handlers :
        (/\ handlers[r].pc = "read_done"
         /\ handlers[r].is_series_updated
         /\ handlers[i].pc = "done") =>
            /\ handlers[i].ans.parameters.indicators \subseteq Persisted.indicators
            /\ \A j \in 1..Len(handlers[i].res) :
                   DictHas(Persisted.tracking, handlers[i].res[j][1])

-----------------------------------------------------------------------------
(* Requests that call get_or_create at once. A caller holds the locals of  *)
(* get_or_create: run_uuid, parameters_key, p and pp (an entity with the    *)
(* key its save gave it).                                                   *)

\* a caller that has not called yet
IdleCaller ==
    [pc |-> "idle", run_uuid |-> TheRun, parameters_key |-> NoKey,
     p |-> NoAnalysis, pp |-> NoKey]

InitCreate ==
    /\ INDICATOR_LIMIT \in Limits
    /\ db = EmptyDb
    /\ ans = NoAnalysis
    /\ op = "start"
    /\ arg = None
    /\ pre = None
    /\ forwarded = <<>>
    /\ ret = None
    /\ detail = <<>>
    /\ saves = 0
    /\ response = None
    /\ handlers = [h \in Handlers |-> IdleCaller]

\* parameters_key = ParametersIndex.get(run_uuid); a key found is loaded and
\* returned
CIndexGet(h, run_uuid) ==
    /\ handlers[h].pc = "idle"
    /\ LET parameters_key == IndexGet(db.ParametersIndex, run_uuid)
       IN  handlers' = [handlers EXCEPT ![h] =
               IF parameters_key = NoKey
               THEN [@ EXCEPT !.pc = "p.save", !.run_uuid = run_uuid]
               ELSE [@ EXCEPT !.pc = "returned", !.run_uuid = run_uuid,
                              !.parameters_key = parameters_key,
                              !.p = Analysis(parameters_key,
                                             db.parameters[parameters_key])]]
    /\ UNCHANGED <<INDICATOR_LIMIT, db, callerVars>>

\* p = ParametersModel(); p.save()
CSaveParameters(h) ==
    /\ handlers[h].pc = "p.save"
    /\ LET p_key == db.nParameters + 1
       IN  /\ db' = [db EXCEPT !.parameters = Put(@, p_key, NewParametersModel),
                               !.nParameters = p_key]
           /\ handlers' = [handlers EXCEPT ![h] =
                   [@ EXCEPT !.pc = "ParametersIndex.set",
                             !.p = Analysis(p_key, NewParametersModel)]]
    /\ UNCHANGED <<INDICATOR_LIMIT, callerVars>>

\* ParametersIndex.set(run_uuid, p.key)
CSetParametersIndex(h) ==
    /\ handlers[h].pc = "ParametersIndex.set"
    /\ db' = [db EXCEPT !.ParametersIndex[handlers[h].run_uuid] = handlers[h].p.key]
    /\ handlers' = [handlers EXCEPT ![h].pc = "pp.save"]
    /\ UNCHANGED <<INDICATOR_LIMIT, callerVars>>

\* pp = ParametersPreferencesModel(); pp.save()
CSavePreferences(h) ==
    /\ handlers[h].pc = "pp.save"
    /\ LET pp_key == db.nPreferences + 1
       IN  /\ db' = [db EXCEPT !.preferences = Put(@, pp_key, NewPreferencesModel),
                               !.nPreferences = pp_key]
           /\ handlers' = [handlers EXCEPT ![h] =
                   [@ EXCEPT !.pc = "ParametersPreferencesIndex.set", !.pp = pp_key]]
    /\ UNCHANGED <<INDICATOR_LIMIT, callerVars>>

\* ParametersPreferencesIndex.set(run_uuid, pp.key); return ParametersAnalysis(p)
CSetPreferencesIndex(h) ==
    /\ handlers[h].pc = "ParametersPreferencesIndex.set"
    /\ db' = [db EXCEPT !.ParametersPreferencesIndex[handlers[h].run_uuid] =
                            handlers[h].pp]
    /\ handlers' = [handlers EXCEPT ![h].pc = "returned"]
    /\ UNCHANGED <<INDICATOR_LIMIT, callerVars>>

CreateNext ==
    \E h \in Handlers :
        \/ \E run_uuid \in Runs : CIndexGet(h, run_uuid)
        \/ CSaveParameters(h)
        \/ CSetParametersIndex(h)
        \/ CSavePreferences(h)
        \/ CSetPreferencesIndex(h)

SpecCreate == InitCreate /\ [][CreateNext]_vars

\* C20: when callers of get_or_create for the same run, which had no
\* collection, have returned, one collection entity and one preferences
\* entity exist for the run at most, and every caller holds the collection
\* the index of the run refers to.
C20_ConcurrentCreateOnce ==
    \A g, h \in Handlers :
        (/\ g # h
         /\ handlers[g].pc = "returned"
         /\ handlers[h].pc = "returned"
         /\ handlers[g].run_uuid = handlers[h].run_uuid) =>
            /\ Cardinality(Keys(db.parameters)) <= 1
            /\ Cardinality(Keys(db.preferences)) <= 1
            /\ handlers[g].p.key = db.ParametersIndex[handlers[g].run_uuid]
            /\ handlers[h].p.key = db.ParametersIndex[handlers[h].run_uuid]

====
